---- MODULE Spec2Model ----
(***************************************************************************)
(* Model of backend/gradio-app.py: the Gradio callback process_inputs,     *)
(* which chains transcription, optional image analysis and speech          *)
(* synthesis.  The four collaborators (transcribe_with_groq, encode_image, *)
(* analyze_image_with_query, text_to_speech_with_elevenlabs) are imported  *)
(* from other modules; a call to one of them is a step that either returns *)
(* a value drawn from a small set or raises.  process_inputs has no        *)
(* try/except, so a raise ends the invocation.                             *)
(*                                                                         *)
(* Invocations are modelled one after the other: the model starts a new    *)
(* invocation only when the previous one has returned or raised.           *)
(***************************************************************************)
EXTENDS Naturals, Sequences, FiniteSets, TLC

\* ---------------------------------------------------------------- bounds
\* Number of invocations of process_inputs in one run of the application.
MaxRequests == 3

\* ------------------------------------------------------- Python's values
\* Python's None.  Every path, transcript and response of the model is a
\* string different from this one, so "is None" is equality with None.
None == "<None>"
\* A local variable of process_inputs that has not been assigned yet.
Unbound == "<unbound>"
\* "No value was returned to the caller" (the invocation is running or raised).
NoResult == <<>>

\* ------------------------------------------------------ program literals
system_prompt == "You have to act as a professional doctor, i know you are not but this is for learning purpose. \n            What's in this image?. Do you find anything wrong with it medically? \n            If you make a differential, suggest some remedies for them. Donot add any numbers or special characters in \n            your response. Your response should be in one long paragraph. Also always answer as if you are answering to a real person.\n            Donot say 'In the image I see' but say 'With what I see, I think you have ....'\n            Dont respond as an AI model in markdown, your answer should mimic that of an actual doctor not an AI bot, \n            Keep your answer concise (max 2 sentences). No preamble, start your answer right away please"

SttModel == "whisper-large-v3"
VisionModel == "meta-llama/llama-4-scout-17b-16e-instruct"
NoImageResponse == "No image provided for me to analyze"
NoAudioResult == <<"No audio recorded", "Please record your question first", None>>

\* Names of the collaborators, as they appear in the call trace.
Transcribe == "transcribe_with_groq"
Encode == "encode_image"
Analyze == "analyze_image_with_query"
Synthesize == "text_to_speech_with_elevenlabs"
Collaborators == {Transcribe, Encode, Analyze, Synthesize}

\* ---------------------------------------------------------------- inputs
\* What the UI layer can hand to process_inputs: gr.Audio and gr.Image with
\* type="filepath" give None when nothing was recorded or uploaded.
AudioPaths == {None, "", "question.wav", "followup.wav"}
ImagePaths == {None, "", "rash.png", "xray.png"}
\* What the collaborators can return.
Transcripts == {"", "What is this rash on my arm", "Is this bone broken"}
EncodedImages == {"cmFzaA==", "eHJheQ=="}
DoctorResponses == {"With what I see, I think you have eczema", "With what I see, I think you have a fracture"}
SynthReturnValues == {None, "final.mp3", "elevenlabs_out.mp3"}
\* os.environ.get("GROQ_API_KEY"): the key, or None when it is not set.
EnvironValues == {None, "gsk_key"}

VARIABLES
  pc,                    \* where the current invocation is
  audio_filepath,        \* parameter of the current invocation
  image_filepath,        \* parameter of the current invocation
  speech_to_text_output, \* local
  doctor_response,       \* local
  audio_path,            \* local
  trace,                 \* collaborator calls, returns and raises of the current invocation
  result,                \* the triple returned to the caller, or NoResult
  fault,                 \* the collaborator whose exception reached the caller, or None
  files,                 \* files written on disk so far, over all invocations
  synthLog,              \* output_filepath of every synthesis call so far, over all invocations
  groq_api_key,          \* the process environment's GROQ_API_KEY
  nreq                   \* invocations started so far

vars == <<pc, audio_filepath, image_filepath, speech_to_text_output,
          doctor_response, audio_path, trace, result, fault, files,
          synthLog, groq_api_key, nreq>>

\* ------------------------------------------------------ trace of one call
CallEvent(fn, args) == [ev |-> "call", fn |-> fn, val |-> args]
ReturnEvent(fn, v) == [ev |-> "return", fn |-> fn, val |-> <<v>>]
RaiseEvent(fn) == [ev |-> "raise", fn |-> fn, val |-> <<>>]

\* --------------------------------------------------- process_inputs, pure
\* line 28: if audio_filepath is None
AudioAbsentFalsy(a) == a = None \/ a = ""
AudioAbsent(a) == a = None

\* line 36: if image_filepath  (truthiness of None or a str)
ImageProvidedNotNone(i) == i # None
ImageProvided(i) == i # None /\ i # ""

\* line 37: query=system_prompt+speech_to_text_output
QuerySwapped(t) == t \o system_prompt
Query(t) == system_prompt \o t

\* line 43: output_filepath="final.mp3"
OutputFilepathPerRequest == audio_filepath \o ".mp3"
OutputFilepath == "final.mp3"

\* line 29: the early return
EarlyReturnWithAudio == <<"No audio recorded", "Please record your question first", OutputFilepath>>
EarlyReturn == NoAudioResult

\* line 44: return speech_to_text_output, doctor_response, audio_path
ResultTripleFixedPath(stt, resp, ap) == <<stt, resp, OutputFilepath>>
ResultTriple(stt, resp, ap) == <<stt, resp, ap>>

\* The synthesis collaborator writes the audio at the path it was given,
\* replacing a file already there.
WriteAudioFile(fs, path) == fs \cup {path}

\* The synthesis call of lines 43: the arguments and the bookkeeping.
SynthArgs(resp) == <<resp, OutputFilepath>>

\* ------------------------------------------------------------------ Init
Init ==
  /\ pc = "idle"
  /\ audio_filepath = Unbound
  /\ image_filepath = Unbound
  /\ speech_to_text_output = Unbound
  /\ doctor_response = Unbound
  /\ audio_path = Unbound
  /\ trace = <<>>
  /\ result = NoResult
  /\ fault = None
  /\ files = {}
  /\ synthLog = <<>>
  /\ groq_api_key \in EnvironValues
  /\ nreq = 0

\* --------------------------------------------------------------- actions
\* An exception raised by collaborator fn: nothing in process_inputs catches
\* it, so the invocation ends and the caller gets the exception.
RaiseSwallowed(fn) ==
  /\ pc' = "returned"
  /\ fault' = None
  /\ trace' = Append(trace, RaiseEvent(fn))
  /\ result' = <<"Something went wrong", "Please try again", None>>
Raise(fn) ==
  /\ pc' = "faulted"
  /\ fault' = fn
  /\ trace' = Append(trace, RaiseEvent(fn))
  /\ result' = NoResult

\* lines 24-33: the UI layer calls process_inputs(a, i); the invocation runs
\* to the early return or to the transcription call.
ProcessInputs(a, i) ==
  /\ pc \in {"idle", "returned", "faulted"}
  /\ nreq < MaxRequests
  /\ nreq' = nreq + 1
  /\ audio_filepath' = a
  /\ image_filepath' = i
  /\ speech_to_text_output' = Unbound
  /\ doctor_response' = Unbound
  /\ audio_path' = Unbound
  /\ fault' = None
  /\ IF AudioAbsent(a)
       THEN /\ pc' = "returned"
            /\ result' = EarlyReturn
            /\ trace' = <<>>
       ELSE /\ pc' = "transcribe"
            /\ result' = NoResult
            /\ trace' = <<CallEvent(Transcribe, <<groq_api_key, a, SttModel>>)>>
  /\ UNCHANGED <<files, synthLog, groq_api_key>>

\* lines 31-43: transcribe_with_groq returns t; the invocation runs to the
\* next collaborator call: encode_image when an image was given, otherwise
\* the synthesis of the fixed response.
TranscribeReturns(t) ==
  /\ pc = "transcribe"
  /\ speech_to_text_output' = t
  /\ IF ImageProvided(image_filepath)
       THEN /\ pc' = "encode"
            /\ trace' = trace \o <<ReturnEvent(Transcribe, t),
                                   CallEvent(Encode, <<image_filepath>>)>>
            /\ UNCHANGED <<doctor_response, synthLog>>
       ELSE /\ pc' = "synth"
            /\ doctor_response' = NoImageResponse
            /\ trace' = trace \o <<ReturnEvent(Transcribe, t),
                                   CallEvent(Synthesize, SynthArgs(NoImageResponse))>>
            /\ synthLog' = Append(synthLog, SynthArgs(NoImageResponse)[2])
  /\ UNCHANGED <<audio_filepath, image_filepath, audio_path, result, fault,
                 files, groq_api_key, nreq>>

\* line 31: transcribe_with_groq raises.
TranscribeRaises ==
  /\ pc = "transcribe"
  /\ Raise(Transcribe)
  /\ UNCHANGED <<audio_filepath, image_filepath, speech_to_text_output,
                 doctor_response, audio_path, files, synthLog, groq_api_key, nreq>>

\* lines 37-39: encode_image returns e; analyze_image_with_query is called
\* with the query, the encoded image and the model.
EncodeReturns(e) ==
  /\ pc = "encode"
  /\ pc' = "analyze"
  /\ trace' = trace \o <<ReturnEvent(Encode, e),
                         CallEvent(Analyze, <<Query(speech_to_text_output), e, VisionModel>>)>>
  /\ UNCHANGED <<audio_filepath, image_filepath, speech_to_text_output,
                 doctor_response, audio_path, result, fault, files, synthLog,
                 groq_api_key, nreq>>

\* line 38: encode_image raises.
EncodeRaises ==
  /\ pc = "encode"
  /\ Raise(Encode)
  /\ UNCHANGED <<audio_filepath, image_filepath, speech_to_text_output,
                 doctor_response, audio_path, files, synthLog, groq_api_key, nreq>>

\* lines 37-43: analyze_image_with_query returns r, which becomes
\* doctor_response; the synthesis is called with it.
AnalyzeReturns(r) ==
  /\ pc = "analyze"
  /\ doctor_response' = r
  /\ pc' = "synth"
  /\ trace' = trace \o <<ReturnEvent(Analyze, r), CallEvent(Synthesize, SynthArgs(r))>>
  /\ synthLog' = Append(synthLog, SynthArgs(r)[2])
  /\ UNCHANGED <<audio_filepath, image_filepath, speech_to_text_output,
                 audio_path, result, fault, files, groq_api_key, nreq>>

\* line 37: analyze_image_with_query raises.
AnalyzeRaisesFallback ==
  /\ pc = "analyze"
  /\ doctor_response' = NoImageResponse
  /\ pc' = "synth"
  /\ trace' = trace \o <<RaiseEvent(Analyze), CallEvent(Synthesize, SynthArgs(NoImageResponse))>>
  /\ synthLog' = Append(synthLog, SynthArgs(NoImageResponse)[2])
  /\ UNCHANGED <<audio_filepath, image_filepath, speech_to_text_output,
                 audio_path, result, fault, files, groq_api_key, nreq>>
AnalyzeRaises ==
  /\ pc = "analyze"
  /\ Raise(Analyze)
  /\ UNCHANGED <<audio_filepath, image_filepath, speech_to_text_output,
                 doctor_response, audio_path, files, synthLog, groq_api_key, nreq>>

\* lines 43-44: text_to_speech_with_elevenlabs has written the file and
\* returns v, which becomes audio_path; the triple is returned.
SynthReturnsThenGtts(v) ==
  /\ pc = "synth"
  /\ audio_path' = v
  /\ files' = WriteAudioFile(files, trace[Len(trace)].val[2])
  /\ IF Len(SelectSeq(trace, LAMBDA e : e.ev = "call" /\ e.fn = Synthesize)) < 2
       THEN /\ pc' = "synth"
            /\ result' = NoResult
            /\ trace' = trace \o <<ReturnEvent(Synthesize, v),
                                   CallEvent(Synthesize, SynthArgs(doctor_response))>>
            /\ synthLog' = Append(synthLog, SynthArgs(doctor_response)[2])
       ELSE /\ pc' = "returned"
            /\ result' = ResultTriple(speech_to_text_output, doctor_response, v)
            /\ trace' = Append(trace, ReturnEvent(Synthesize, v))
            /\ UNCHANGED synthLog
  /\ UNCHANGED <<audio_filepath, image_filepath, speech_to_text_output,
                 doctor_response, fault, groq_api_key, nreq>>
SynthReturns(v) ==
  /\ pc = "synth"
  /\ audio_path' = v
  /\ files' = WriteAudioFile(files, trace[Len(trace)].val[2])
  /\ pc' = "returned"
  /\ result' = ResultTriple(speech_to_text_output, doctor_response, v)
  /\ trace' = Append(trace, ReturnEvent(Synthesize, v))
  /\ UNCHANGED <<audio_filepath, image_filepath, speech_to_text_output,
                 doctor_response, fault, synthLog, groq_api_key, nreq>>

\* line 43: text_to_speech_with_elevenlabs raises, before or after it has
\* written the file.
SynthRaises ==
  /\ pc = "synth"
  /\ Raise(Synthesize)
  /\ files' \in {files, WriteAudioFile(files, trace[Len(trace)].val[2])}
  /\ UNCHANGED <<audio_filepath, image_filepath, speech_to_text_output,
                 doctor_response, audio_path, synthLog, groq_api_key, nreq>>

Next ==
  \/ \E a \in AudioPaths, i \in ImagePaths : ProcessInputs(a, i)
  \/ \E t \in Transcripts : TranscribeReturns(t)
  \/ TranscribeRaises
  \/ \E e \in EncodedImages : EncodeReturns(e)
  \/ EncodeRaises
  \/ \E r \in DoctorResponses : AnalyzeReturns(r)
  \/ AnalyzeRaises
  \/ \E v \in SynthReturnValues : SynthReturns(v)
  \/ SynthRaises

Spec == Init /\ [][Next]_vars

\* ------------------------------------------------- reading the call trace
CallsOf(fn) == SelectSeq(trace, LAMBDA e : e.ev = "call" /\ e.fn = fn)
ReturnsOf(fn) == SelectSeq(trace, LAMBDA e : e.ev = "return" /\ e.fn = fn)
RaisesOf(fn) == SelectSeq(trace, LAMBDA e : e.ev = "raise" /\ e.fn = fn)
NumCalls(fn) == Len(CallsOf(fn))
HasReturned(fn) == Len(ReturnsOf(fn)) > 0
HasRaised(fn) == Len(RaisesOf(fn)) > 0
\* The functions called by the current invocation, in call order.
RECURSIVE FnsOf(_)
FnsOf(s) == IF s = <<>> THEN <<>> ELSE <<s[1].fn>> \o FnsOf(Tail(s))
CallOrder == FnsOf(SelectSeq(trace, LAMBDA e : e.ev = "call"))
IsPrefix(s, t) == Len(s) <= Len(t) /\ \A k \in 1..Len(s) : s[k] = t[k]
\* An invocation has been made and it was given an audio path.
HasAudio == pc # "idle" /\ audio_filepath # None
ImageGiven == image_filepath # None /\ image_filepath # ""

\* ================================================================ claims

\* C1: an invocation whose audio path is None, whatever the image path,
\* returns ("No audio recorded", "Please record your question first", None)
\* and calls no collaborator: no transcription, encoding, analysis or
\* synthesis, and no exception.
C1_NoAudioShortCircuit ==
  (pc # "idle" /\ audio_filepath = None) =>
     /\ pc = "returned"
     /\ result = <<"No audio recorded", "Please record your question first", None>>
     /\ trace = <<>>
     /\ \A fn \in Collaborators : NumCalls(fn) = 0
     /\ fault = None
C1_Witness ==
  /\ pc = "returned"
  /\ audio_filepath = None
  /\ image_filepath = "rash.png"
  /\ files # {}

\* C2 as stated: with an audio path and no image, the response text that is
\* passed to the synthesis and returned is the string "no image provided",
\* and neither encode_image nor analyze_image_with_query is called.
C2_Original ==
  (HasAudio /\ ~ImageGiven) =>
     /\ NumCalls(Analyze) = 0 /\ NumCalls(Encode) = 0
     /\ \A k \in 1..NumCalls(Synthesize) : CallsOf(Synthesize)[k].val[1] = "no image provided"
     /\ pc = "returned" => result[2] = "no image provided"

\* C2 amended: with an audio path and no image, the response text that is
\* passed to the synthesis and returned is the string
\* "No image provided for me to analyze", the synthesis is called with it
\* as soon as the transcription has returned, and neither encode_image nor
\* analyze_image_with_query is called.
C2_NoImageSentinel ==
  (HasAudio /\ ~ImageGiven) =>
     /\ NumCalls(Analyze) = 0 /\ NumCalls(Encode) = 0
     /\ HasReturned(Transcribe) =>
          /\ NumCalls(Synthesize) = 1
          /\ CallsOf(Synthesize)[1].val[1] = "No image provided for me to analyze"
          /\ doctor_response = "No image provided for me to analyze"
     /\ pc = "returned" => result[2] = "No image provided for me to analyze"
C2_Witness ==
  /\ pc = "returned"
  /\ audio_filepath = "question.wav"
  /\ image_filepath = ""
  /\ result[2] = "No image provided for me to analyze"

\* C3: with an audio path and an image path, analyze_image_with_query is
\* never called more than once; a call of it has exactly the arguments
\* (system_prompt followed by the transcript that transcribe_with_groq
\* returned in this invocation, the value encode_image returned for this
\* invocation's image path, the fixed model name); an invocation that
\* reaches the synthesis has made the call exactly once and its response
\* text is what the call returned.
C3_VisionCall ==
  (HasAudio /\ ImageGiven) =>
     /\ NumCalls(Analyze) <= 1
     /\ NumCalls(Analyze) = 1 =>
          /\ HasReturned(Transcribe) /\ HasReturned(Encode)
          /\ CallsOf(Encode) = <<CallEvent(Encode, <<image_filepath>>)>>
          /\ CallsOf(Analyze)[1].val =
               << system_prompt \o ReturnsOf(Transcribe)[1].val[1],
                  ReturnsOf(Encode)[1].val[1],
                  "meta-llama/llama-4-scout-17b-16e-instruct" >>
     /\ pc \in {"synth", "returned"} =>
          /\ NumCalls(Analyze) = 1
          /\ HasReturned(Analyze)
          /\ doctor_response = ReturnsOf(Analyze)[1].val[1]
     /\ pc = "returned" => result[2] = ReturnsOf(Analyze)[1].val[1]
C3_Witness ==
  /\ pc = "returned"
  /\ audio_filepath = "question.wav"
  /\ image_filepath = "rash.png"
  /\ result[1] = "What is this rash on my arm"
  /\ NumCalls(Analyze) = 1

\* C4: when transcribe_with_groq raises, the invocation makes no synthesis
\* call, no analysis call and no encoding call, returns no triple, and the
\* caller gets the exception.
C4_TranscribeFaultPropagates ==
  HasRaised(Transcribe) =>
     /\ NumCalls(Synthesize) = 0
     /\ NumCalls(Analyze) = 0
     /\ NumCalls(Encode) = 0
     /\ result = NoResult
     /\ pc = "faulted"
     /\ fault = Transcribe
     /\ trace[Len(trace)] = RaiseEvent(Transcribe)
C4_Witness ==
  /\ HasRaised(Transcribe)
  /\ image_filepath = "xray.png"
  /\ pc = "faulted"

\* C5 as stated: an invocation with an audio path that returns gives
\* (transcript, the text passed to the synthesis, "final.mp3"), whatever the
\* synthesis returned.
C5_Original ==
  (HasAudio /\ pc = "returned") =>
     /\ result[1] = ReturnsOf(Transcribe)[1].val[1]
     /\ result[2] = CallsOf(Synthesize)[1].val[1]
     /\ result[3] = "final.mp3"

\* C5 amended: an invocation with an audio path that returns gives
\* (transcript, the text passed to the synthesis, the value that the
\* synthesis call returned), where that call was asked to write "final.mp3".
C5_ReturnedTriple ==
  (HasAudio /\ pc = "returned") =>
     /\ Len(result) = 3
     /\ result[1] = ReturnsOf(Transcribe)[1].val[1]
     /\ result[2] = CallsOf(Synthesize)[1].val[1]
     /\ result[3] = ReturnsOf(Synthesize)[1].val[1]
     /\ CallsOf(Synthesize)[1].val[2] = "final.mp3"
C5_Witness ==
  /\ HasAudio
  /\ pc = "returned"
  /\ result[3] = None
  /\ "final.mp3" \in files

\* C6: over any sequence of invocations every synthesis call was given the
\* output path "final.mp3", and the set of files written is empty or
\* exactly {"final.mp3"}.
C6_SingleOutputFile ==
  /\ \A k \in 1..Len(synthLog) : synthLog[k] = "final.mp3"
  /\ \A k \in 1..NumCalls(Synthesize) : CallsOf(Synthesize)[k].val[2] = "final.mp3"
  /\ files \in {{}, {"final.mp3"}}
C6_Witness ==
  /\ Len(synthLog) >= 2
  /\ files = {"final.mp3"}
  /\ pc = "returned"
  /\ audio_filepath = "followup.wav"

\* C8: an exception of analyze_image_with_query or of
\* text_to_speech_with_elevenlabs ends the invocation: it is the last event,
\* the caller gets it, no triple is returned, the collaborator that raised
\* was called once only, and after an analysis exception the synthesis is
\* not called.
C8_LaterFaultsPropagate ==
  /\ HasRaised(Analyze) =>
       /\ pc = "faulted" /\ fault = Analyze /\ result = NoResult
       /\ trace[Len(trace)] = RaiseEvent(Analyze)
       /\ NumCalls(Analyze) = 1
       /\ NumCalls(Synthesize) = 0
  /\ HasRaised(Synthesize) =>
       /\ pc = "faulted" /\ fault = Synthesize /\ result = NoResult
       /\ trace[Len(trace)] = RaiseEvent(Synthesize)
       /\ NumCalls(Synthesize) = 1
  /\ \A k \in 1..Len(trace) : trace[k].ev = "raise" => k = Len(trace)
C8_Witness ==
  /\ HasRaised(Analyze)
  /\ pc = "faulted"
  /\ nreq >= 2
  /\ "final.mp3" \in files

\* C9: in an invocation with an audio path the collaborators are called in
\* the order transcription, then encoding and analysis (only with an
\* image), then synthesis, each at most once; a call is made only after the
\* previous call has returned; an invocation that returns a triple has
\* called the transcription once and the synthesis once.
C9_CallOrder ==
  HasAudio =>
     /\ IsPrefix(CallOrder, IF ImageGiven
                              THEN <<Transcribe, Encode, Analyze, Synthesize>>
                              ELSE <<Transcribe, Synthesize>>)
     /\ \A k \in 1..Len(trace) :
          IF trace[k].ev = "call"
            THEN k > 1 => trace[k-1].ev = "return"
            ELSE k > 1 /\ trace[k-1].ev = "call" /\ trace[k-1].fn = trace[k].fn
     /\ \A fn \in Collaborators : NumCalls(fn) <= 1
     /\ pc = "returned" =>
          /\ NumCalls(Transcribe) = 1 /\ Len(ReturnsOf(Transcribe)) = 1
          /\ NumCalls(Synthesize) = 1 /\ Len(ReturnsOf(Synthesize)) = 1
          /\ ImageGiven => NumCalls(Encode) = 1 /\ NumCalls(Analyze) = 1
C9_Witness ==
  /\ HasAudio
  /\ pc = "returned"
  /\ CallOrder = <<Transcribe, Encode, Analyze, Synthesize>>
  /\ Len(trace) = 8

\* C10: the early exit is taken exactly when the audio path is None: every
\* other audio path, the empty string included, is passed to a
\* transcription call.  The image test is by truthiness: with an image path
\* None or "" the response is the fixed one and the analysis is never
\* called; with any other image path the invocation takes the analysis
\* branch once the transcription has returned, and reaches the synthesis
\* only with an analysis call made.
C10_AbsenceTests ==
  pc # "idle" =>
     /\ (trace = <<>>) <=> (audio_filepath = None)
     /\ audio_filepath # None =>
          /\ NumCalls(Transcribe) = 1
          /\ CallsOf(Transcribe)[1].val[2] = audio_filepath
     /\ (audio_filepath # None /\ image_filepath \in {None, ""}) =>
          /\ NumCalls(Encode) = 0 /\ NumCalls(Analyze) = 0
          /\ HasReturned(Transcribe) =>
               doctor_response = "No image provided for me to analyze"
     /\ (audio_filepath # None /\ image_filepath \notin {None, ""}) =>
          /\ HasReturned(Transcribe) => NumCalls(Encode) = 1
          /\ HasReturned(Encode) => NumCalls(Analyze) = 1
          /\ NumCalls(Synthesize) > 0 => NumCalls(Analyze) = 1
C10_Witness ==
  /\ pc = "returned"
  /\ audio_filepath = ""
  /\ image_filepath = ""
  /\ NumCalls(Transcribe) = 1
  /\ NumCalls(Analyze) = 0
====
